---- MODULE Spec2Model ----
(***************************************************************************)
(* Model of development/installer-local.py: the provisioning workflow run  *)
(* by main(), its steps, the files they touch and the external commands    *)
(* they invoke.                                                            *)
(***************************************************************************)
EXTENDS Integers, Sequences, FiniteSets, TLC

\* ------------------------------------------------------------------ bounds

\* Number of times the workflow is run in a row against the same machine.
MaxRuns == 2

\* ------------------------------------------------------- program constants

MariadbPort == 3306
PostgresPort == 5432
WrapperMode == 493       \* 0o755
DefaultMode == 438 - 18  \* 0o666 less the umask: a new file's mode when chmod did not run
ExitOk == 0
ExitFatal == 1
Running == 0 - 1         \* the process has not exited yet

NoVal == "<absent>"      \* a JSON key that is not in the document
Loopback == "127.0.0.1"
DefaultSite == "development.localhost"
OtherSite == "other.localhost"
SiteNames == {DefaultSite, OtherSite}

\* Outcome of one subprocess invocation: exit code 0, nonzero exit code, or
\* subprocess.run raising (OSError, TimeoutExpired).
Outcomes == {"ok", "fail", "raise"}

\* ------------------------------------------------------------ path strings
\* A string is a sequence of tokens; a directory name is one or two tokens, so
\* that one directory name can be a proper substring of another.

UsrBin == <<"/usr/bin">>
LocalBin == <<"/home/dev/bin">>                 \* os.path.expanduser('~/bin')
LocalBinOld == <<"/home/dev/bin", "-old">>      \* "/home/dev/bin-old"
Colon == ":"

\* Installation prefixes searched when mysql is not on the search path.
homebrew_paths ==
  << <<"/opt/homebrew/opt/mysql-client">>,
     <<"/usr/local/opt/mysql-client">>,
     <<"/opt/homebrew/opt/mysql">>,
     <<"/usr/local/opt/mysql">> >>

BinDir(prefix) == prefix \o <<"/bin">>
MysqlIn(dir) == dir \o <<"/mysql">>

RECURSIVE Join(_)
\* ':'.join(entries): the value of the PATH environment variable.
Join(entries) ==
  IF entries = <<>> THEN <<>>
  ELSE IF Len(entries) = 1 THEN Head(entries)
  ELSE Head(entries) \o <<Colon>> \o Join(Tail(entries))

\* Python's `needle in hay` on strings.
InStr(needle, hay) ==
  \E k \in 0..(Len(hay) - Len(needle)) :
     \A j \in 1..Len(needle) : hay[k + j] = needle[j]

\* f"{dir}:{path}"
Prepend(dir, path) == IF path = <<>> THEN dir \o <<Colon>> ELSE dir \o <<Colon>> \o path

RECURSIVE Split(_, _)
\* The entries of a PATH string, in search order.
Split(path, cur) ==
  IF path = <<>> THEN <<cur>>
  ELSE IF Head(path) = Colon THEN <<cur>> \o Split(Tail(path), <<>>)
  ELSE Split(Tail(path), Append(cur, Head(path)))

Entries(path) == Split(path, <<>>)

\* ------------------------------------------------------------------ state

VARIABLES
  args,        \* parsed command line: db_type, site_name, recreate_site
  pc,          \* the step of main() that runs next; "exit" after the process ended
  exitCode,    \* the process exit code, Running while it has not exited
  run,         \* how many times the workflow was started on this machine
  steps,       \* this run's steps in execution order, each with what it reported
  calls,       \* this run's external command invocations, in order
  result,      \* outcome of the latest subprocess invocation
  i,           \* configure_bench: index of the next entry of config_commands
  warned,      \* configure_bench: a set-config invocation of this call failed
  machine,     \* platform.system() and the directories that hold a mysql binary
  PATH0,       \* the PATH the process inherits
  PATH,        \* os.environ['PATH'] of the running process
  wrapper,     \* the file ~/bin/mariadb
  benchExists, \* os.path.exists(bench_name)
  sites,       \* per site name: the state of <bench>/sites/<site>
  apps         \* <bench>/apps: "absent" or the set of its subdirectories

vars == <<args, pc, exitCode, run, steps, calls, result, i, warned, machine, PATH0, PATH,
          wrapper, benchExists, sites, apps>>

runVars == <<args, run>>
envVars == <<machine, PATH0>>
fsVars == <<benchExists, sites, apps>>

\* -------------------------------------------------------- bounded inputs

DbTypes == {"mariadb", "postgres"}

ArgSet == [db_type : DbTypes, site_name : SiteNames, recreate_site : BOOLEAN]

SocketPath == "/run/mysqld/mysqld.sock"

\* A parsed site_config.json. db_name stands for every field the workflow
\* does not know about.
SiteConfigs ==
  { [db_host |-> h, db_port |-> ps[1], db_socket |-> ps[2], db_name |-> "_site"] :
      h \in {"mariadb", "localhost", Loopback},
      ps \in { <<MariadbPort, NoVal>>, <<PostgresPort, SocketPath>> } }

NoConfig == [db_host |-> NoVal, db_port |-> 0, db_socket |-> NoVal, db_name |-> NoVal]

\* <bench>/sites/<site>: no directory ("absent"), a directory without
\* site_config.json ("nofile"), a site_config.json that cannot be opened for
\* reading ("unreadable") or that json.load rejects ("invalid"), or a parsed
\* document ("json").
NoSite == [kind |-> "absent", cfg |-> NoConfig]
SiteStates ==
  { [kind |-> k, cfg |-> NoConfig] : k \in {"absent", "nofile", "unreadable", "invalid"} }
    \cup { [kind |-> "json", cfg |-> c] : c \in SiteConfigs }

NoApps == [exists |-> FALSE, dirs |-> {}]
AppsStates ==
  { NoApps, [exists |-> TRUE, dirs |-> {"frappe"}],
    [exists |-> TRUE, dirs |-> {"frappe", "erpnext"}] }

NoWrapper == [exists |-> FALSE, binary |-> <<>>, tcp |-> FALSE, mode |-> 0]
StaleWrapper ==
  [exists |-> TRUE, binary |-> MysqlIn(<<"/old">>), tcp |-> TRUE, mode |-> WrapperMode]

\* What the machine lets the process do under ~/bin: create and chmod files
\* ("writable"), create but not chmod them ("nochmod"), neither ("readonly"),
\* or not even have the directory ("blocked": os.makedirs raises).
HomeBinStates == {"writable", "nochmod", "readonly", "blocked"}

MysqlInstalls ==
  { [platform |-> "Linux",  mysqlDirs |-> {UsrBin}],
    [platform |-> "Linux",  mysqlDirs |-> {}],
    [platform |-> "Linux",  mysqlDirs |-> {BinDir(homebrew_paths[1])}],
    [platform |-> "Darwin", mysqlDirs |-> {}],
    [platform |-> "Darwin", mysqlDirs |-> {BinDir(homebrew_paths[2]),
                                           BinDir(homebrew_paths[4])}] }

Machines ==
  { [platform |-> m.platform, mysqlDirs |-> m.mysqlDirs, homeBin |-> h] :
      m \in MysqlInstalls, h \in HomeBinStates }

DefaultMachine == [platform |-> "Linux", mysqlDirs |-> {UsrBin}, homeBin |-> "writable"]

InitialPaths == { Join(<<UsrBin>>), Join(<<UsrBin, LocalBin>>), Join(<<LocalBinOld, UsrBin>>) }

\* ------------------------------------------------------------ helpers

Call(cmd, a) == [cmd |-> cmd, args |-> a]
Step(name, ok) == [step |-> name, ok |-> ok]

\* sys.exit(code), or the interpreter ending after main() returned.
Exit(code) == /\ pc' = "exit"
              /\ exitCode' = code

\* Mutant of after_workspace_init: the result of the step is not looked at.
after_workspace_init_unchecked(ok) == "configure"

\* main, lines 623-624: a failed workspace initialization ends the process.
after_workspace_init(ok) == IF ok THEN "configure" ELSE "exit"

\* Mutant of after_companion_install: a failed install ends the process.
after_companion_install_fatal(ok) == IF ok THEN "create_site" ELSE "exit"

\* main, lines 631-635: site provisioning follows whatever the companion
\* install reported.
after_companion_install(ok) == "create_site"

\* main, lines 606-639: the step that follows a step that reported ok, "exit"
\* when main calls sys.exit(1) or returns.
main_next(step, ok, db_type) ==
  CASE step = "preflight" ->
         IF ~ok THEN "exit"
         ELSE IF db_type = "mariadb" THEN "check_mysql" ELSE "init_bench"
    [] step = "client_resolution" -> IF ok THEN "setup_mysql" ELSE "exit"
    [] step = "wrapper_generation" -> IF ok THEN "check_db" ELSE "exit"
    [] step = "database_probe" -> IF ok THEN "init_bench" ELSE "exit"
    [] step = "workspace_init" -> after_workspace_init(ok)
    [] step = "workspace_configuration" -> IF ok THEN "install_erpnext" ELSE "exit"
    [] step = "companion_install" -> after_companion_install(ok)
    [] step = "site_provisioning" -> IF ok THEN "show_usage" ELSE "exit"
    [] OTHER -> "exit"

\* A step of main has returned ok: main records it and goes on or exits. Only
\* the end of main, after show_usage, exits with code 0.
Advance(step, ok) ==
  /\ steps' = Append(steps, Step(step, ok))
  /\ pc' = main_next(step, ok, args.db_type)
  /\ exitCode' = IF pc' # "exit" THEN exitCode
                 ELSE IF step = "usage_summary" THEN ExitOk ELSE ExitFatal

\* `which mysql`: the first directory of the search path that holds a mysql
\* binary, <<>> when there is none (exit code 1).
WhichMysql(path, m) ==
  LET es == Entries(path)
      hits == { k \in 1..Len(es) : es[k] \in m.mysqlDirs }
  IN  IF hits = {} THEN <<>>
      ELSE MysqlIn(es[CHOOSE k \in hits : \A j \in hits : k <= j])

\* os.path.dirname
Dirname(file) == SubSeq(file, 1, Len(file) - 1)

\* The first entry of a list of candidates that exists on this machine.
FirstExisting(prefixes, m) ==
  LET hits == { k \in 1..Len(prefixes) : BinDir(prefixes[k]) \in m.mysqlDirs }
  IN  IF hits = {} THEN <<>>
      ELSE MysqlIn(BinDir(prefixes[CHOOSE k \in hits : \A j \in hits : k <= j]))

\* ------------------------------------------------------------------ Init

\* The workspace as the workflow may find it. The site the workflow targets and
\* the default site (the one configure_bench reconciles) vary freely; a site
\* that is neither stays absent.
Workspaces ==
  { [benchExists |-> FALSE, sites |-> [n \in SiteNames |-> NoSite], apps |-> NoApps] }
    \cup { [benchExists |-> TRUE, sites |-> ss, apps |-> a] :
             ss \in [SiteNames -> SiteStates], a \in AppsStates }

DefaultWorkspace ==
  [benchExists |-> TRUE, sites |-> [n \in SiteNames |-> NoSite],
   apps |-> [exists |-> TRUE, dirs |-> {"frappe"}]]

\* The client steps (PATH, wrapper) and the workspace steps (bench, sites, apps)
\* share no state: the initial states vary the machine with the workspace
\* fixed, and the workspace with the machine fixed.
Init ==
  /\ args \in ArgSet
  /\ pc = "preflight"
  /\ exitCode = Running
  /\ run = 1
  /\ steps = <<>>
  /\ calls = <<>>
  /\ result = "ok"
  /\ i = 1
  /\ warned = FALSE
  /\ \/ /\ machine \in Machines
        /\ PATH0 \in InitialPaths
        /\ wrapper \in {NoWrapper, StaleWrapper}
        /\ machine.homeBin = "blocked" => wrapper = NoWrapper
        /\ args.db_type = "mariadb"
        /\ \E w \in {DefaultWorkspace} :
             benchExists = w.benchExists /\ sites = w.sites /\ apps = w.apps
     \/ /\ machine = DefaultMachine
        /\ PATH0 = Join(<<UsrBin>>)
        /\ wrapper = NoWrapper
        /\ \E w \in Workspaces :
             /\ args.site_name = DefaultSite => w.sites[OtherSite] = NoSite
             /\ benchExists = w.benchExists /\ sites = w.sites /\ apps = w.apps
  /\ PATH = PATH0

\* ------------------------------------------------------------- preflight

VenvValues == {"", "/workspace/frappe_docker/.venv", "/tmp/venv"}

\* check_uv_environment: TRUE iff VIRTUAL_ENV is set and `which bench` exits 0.
check_uv_environment(venv, out) == venv # "" /\ out = "ok"

Preflight ==
  /\ pc = "preflight"
  /\ \E venv \in VenvValues, out \in Outcomes :
       LET ok == check_uv_environment(venv, out) IN
       /\ calls' = IF venv = "" THEN calls ELSE Append(calls, Call("which", <<"bench">>))
       /\ result' = IF venv = "" THEN result ELSE out
       /\ Advance("preflight", ok)
  /\ UNCHANGED <<runVars, envVars, fsVars, i, warned, PATH, wrapper>>

\* ------------------------------------------------------ client resolution

\* Mutant of check_mysql_client: the result of the search is not looked at.
check_mysql_client_unchecked(raised, path, m) == TRUE

\* check_mysql_client: mysql on the search path, else one of the fallback
\* install locations, whatever the platform.
check_mysql_client(raised, path, m) ==
  \/ (~raised /\ WhichMysql(path, m) # <<>>)
  \/ FirstExisting(homebrew_paths, m) # <<>>

CheckMysqlClient ==
  /\ pc = "check_mysql"
  /\ \E raised \in BOOLEAN :
       LET ok == check_mysql_client(raised, PATH, machine) IN
       /\ calls' = Append(calls, Call("which", <<"mysql">>))
       /\ result' = IF raised THEN "raise"
                    ELSE IF WhichMysql(PATH, machine) # <<>> THEN "ok" ELSE "fail"
       /\ Advance("client_resolution", ok)
  /\ UNCHANGED <<runVars, envVars, fsVars, i, warned, PATH, wrapper>>

\* ------------------------------------------------------ wrapper generation

\* setup_mysql_path, lines 161-197: the mysql binary the wrapper will exec,
\* <<>> when none is located. The fallback list is searched on macOS only.
LocateMysql(raised, path, m) ==
  IF ~raised /\ WhichMysql(path, m) # <<>> THEN WhichMysql(path, m)
  ELSE IF m.platform = "Darwin" THEN FirstExisting(homebrew_paths, m)
  ELSE <<>>

\* Lines 204-206 and 228-229: prepend dir unless the PATH string contains it.
AddToPath(dir, path) == IF InStr(dir, path) THEN path ELSE Prepend(dir, path)

\* Mutant of WriteWrapper: the chmod is missing.
WriteWrapper_nochmod(old, binary, homeBin) ==
  IF homeBin \in {"writable", "nochmod"}
  THEN [exists |-> TRUE, binary |-> binary, tcp |-> TRUE,
        mode |-> IF old.exists THEN old.mode ELSE DefaultMode]
  ELSE old

\* Lines 214-225: the wrapper file after the write was attempted. An exception
\* from open or chmod is caught and only logged.
WriteWrapper(old, binary, homeBin) ==
  CASE homeBin = "writable" ->
         [exists |-> TRUE, binary |-> binary, tcp |-> TRUE, mode |-> WrapperMode]
    [] homeBin = "nochmod" ->
         [exists |-> TRUE, binary |-> binary, tcp |-> TRUE,
          mode |-> IF old.exists THEN old.mode ELSE DefaultMode]
    [] OTHER -> old

\* What setup_mysql_path reports: FALSE only when no mysql binary is located.
setup_mysql_path_ok(mysql_binary) == mysql_binary # <<>>

SetupMysqlPath ==
  /\ pc = "setup_mysql"
  /\ \E raised \in BOOLEAN :
       LET mysql_binary == LocateMysql(raised, PATH, machine)
           mysql_dir == Dirname(mysql_binary)
           path1 == AddToPath(mysql_dir, PATH)
       IN
       /\ calls' = Append(calls, Call("which", <<"mysql">>))
       /\ result' = IF raised THEN "raise"
                    ELSE IF WhichMysql(PATH, machine) # <<>> THEN "ok" ELSE "fail"
       /\ IF ~setup_mysql_path_ok(mysql_binary)
          THEN /\ Advance("wrapper_generation", FALSE)
               /\ UNCHANGED <<PATH, wrapper>>
          ELSE IF machine.homeBin = "blocked"
          THEN \* uncaught OSError from os.makedirs (line 211): traceback, exit code 1
               /\ steps' = Append(steps, Step("wrapper_generation", FALSE))
               /\ Exit(ExitFatal)
               /\ PATH' = path1
               /\ UNCHANGED wrapper
          ELSE /\ Advance("wrapper_generation", TRUE)
               /\ wrapper' = WriteWrapper(wrapper, mysql_binary, machine.homeBin)
               /\ PATH' = AddToPath(LocalBin, path1)
  /\ UNCHANGED <<runVars, envVars, fsVars, i, warned>>

\* ---------------------------------------------------------- database probe

\* check_database_service, lines 86-100: the client the probe runs.
ProbeBinary(w, raised, path, m) ==
  IF w.exists THEN LocalBin \o <<"/mariadb">>
  ELSE IF raised THEN <<>>
  ELSE WhichMysql(path, m)

CheckDatabaseService ==
  /\ pc = "check_db"
  /\ \E raised \in BOOLEAN, out \in Outcomes :
       LET bin == ProbeBinary(wrapper, raised, PATH, machine)
           which == IF wrapper.exists THEN <<>> ELSE <<Call("which", <<"mysql">>)>>
           ok == bin # <<>> /\ out = "ok"
       IN
       /\ wrapper.exists => ~raised
       \* a wrapper that is not executable cannot be run: subprocess.run raises
       /\ (wrapper.exists /\ wrapper.mode # WrapperMode) => out = "raise"
       /\ calls' = calls \o which \o
                     (IF bin = <<>> THEN <<>> ELSE <<Call("probe", bin)>>)
       /\ result' = IF bin # <<>> THEN out
                    ELSE IF raised THEN "raise" ELSE "fail"
       /\ Advance("database_probe", ok)
  /\ UNCHANGED <<runVars, envVars, fsVars, i, warned, PATH, wrapper>>

\* ------------------------------------------------------- workspace init

BenchInit == Call("bench", <<"init">>)
GitConfig(app) == Call("git", <<"config", "safe.directory", app>>)

\* init_bench_if_not_exist, lines 247-270: the commands invoked when the
\* workspace is absent. git's exit code is ignored; an exception from either
\* git call ends the step before bench init.
InitBenchCalls(g1, g2) ==
  IF g1 = "raise" THEN <<GitConfig("erpnext")>>
  ELSE IF g2 = "raise" THEN <<GitConfig("erpnext"), GitConfig("frappe")>>
  ELSE <<GitConfig("erpnext"), GitConfig("frappe"), BenchInit>>

\* init_bench_if_not_exist: what the step reports.
init_bench_ok(exists, g1, g2, out) ==
  exists \/ (g1 # "raise" /\ g2 # "raise" /\ out = "ok")

\* Mutant of init_bench_calls: the existence check is lost.
init_bench_calls_always(exists, g1, g2) == InitBenchCalls(g1, g2)

\* init_bench_if_not_exist, line 237: the commands the step invokes.
init_bench_calls(exists, g1, g2) ==
  IF exists THEN <<>> ELSE InitBenchCalls(g1, g2)

InitBench ==
  /\ pc = "init_bench"
  /\ \E g1 \in Outcomes, g2 \in Outcomes, out \in Outcomes, partial \in BOOLEAN :
       LET cs == init_bench_calls(benchExists, g1, g2)
           ran == cs # <<>> /\ cs[Len(cs)] = BenchInit
           ok == init_bench_ok(benchExists, g1, g2, out)
       IN
       /\ calls' = calls \o cs
       /\ result' = IF cs = <<>> THEN result
                    ELSE IF ran THEN out
                    ELSE "raise"
       /\ Advance("workspace_init", ok)
       \* bench init creates the directory tree with apps/frappe; a failed
       \* bench init may leave the directory behind
       /\ IF ran /\ out = "ok"
          THEN /\ benchExists' = TRUE
               /\ apps' = [exists |-> TRUE, dirs |-> {"frappe"}]
          ELSE IF ran /\ out = "fail"
          THEN /\ benchExists' = partial
               /\ UNCHANGED apps
          ELSE UNCHANGED <<benchExists, apps>>
  /\ UNCHANGED <<runVars, envVars, sites, i, warned, PATH, wrapper>>

\* ---------------------------------------------------- workspace configuration

\* configure_bench, lines 296-316: key/value pairs in list order.
config_commands(db_type) ==
  IF db_type = "mariadb"
  THEN << <<"db_host", "localhost">>, <<"db_port", "3306">>, <<"db_socket", "">>,
          <<"db_type", "mariadb">>, <<"redis_cache", "redis://localhost:6379">>,
          <<"redis_queue", "redis://localhost:6380">>,
          <<"redis_socketio", "redis://localhost:6380">>, <<"developer_mode", "1">> >>
  ELSE << <<"db_host", "localhost">>, <<"db_port", "5432">>,
          <<"db_type", "postgres">>, <<"redis_cache", "redis://localhost:6379">>,
          <<"redis_queue", "redis://localhost:6380">>,
          <<"redis_socketio", "redis://localhost:6380">>, <<"developer_mode", "1">> >>

SetConfigCall(kv) == Call("bench", <<"set-config", "-g", kv[1], kv[2]>>)

\* configure_bench, lines 289-291: the precondition; then the loop starts.
ConfigureBench ==
  /\ pc = "configure"
  /\ IF ~benchExists
     THEN /\ Advance("workspace_configuration", FALSE)
          /\ UNCHANGED <<i, warned>>
     ELSE /\ pc' = "set_config"
          /\ i' = 1
          /\ warned' = FALSE
          /\ UNCHANGED <<steps, exitCode>>
  /\ UNCHANGED <<runVars, envVars, fsVars, calls, result, PATH, wrapper>>

\* Mutant of NextIndex: an exception leaves the loop.
NextIndex_abort(k, out) ==
  IF out = "raise" THEN Len(config_commands("mariadb")) + 1 ELSE k + 1

\* Lines 318-326: where the loop goes after entry k ended with outcome out.
NextIndex(k, out) == k + 1

\* One iteration of the loop of lines 318-326.
SetConfig ==
  /\ pc = "set_config"
  /\ i <= Len(config_commands(args.db_type))
  /\ \E out \in Outcomes :
       /\ calls' = Append(calls, SetConfigCall(config_commands(args.db_type)[i]))
       /\ result' = out
       /\ warned' = (warned \/ out # "ok")
       /\ i' = NextIndex(i, out)
  /\ UNCHANGED <<runVars, envVars, fsVars, pc, exitCode, steps, PATH, wrapper>>

\* ------------------------------------------------------ site config rewrite

Placeholders == {"mariadb", "localhost"}

\* Mutant of RewriteSiteConfig: a fresh document is written, the other fields
\* are lost.
RewriteSiteConfig_fresh(cfg) ==
  [db_host |-> Loopback, db_port |-> MariadbPort, db_socket |-> "", db_name |-> NoVal]

\* Lines 338-341: the document written back, for a document that is rewritten.
RewriteSiteConfig(cfg) ==
  [cfg EXCEPT !.db_host = Loopback, !.db_port = MariadbPort, !.db_socket = ""]

\* Line 338: whether the document is rewritten.
NeedsRewrite(cfg) == cfg.db_host \in Placeholders

\* Mutant of FixSiteConfigFile: a file that does not parse is overwritten with
\* the canonical settings.
FixSiteConfigFile_overwrite(site, canWrite) ==
  IF site.kind = "invalid" \/ (site.kind = "json" /\ NeedsRewrite(site.cfg) /\ canWrite)
  THEN [kind |-> "json", cfg |-> RewriteSiteConfig(site.cfg)]
  ELSE site

\* Lines 329-346: the default site's directory after reconciliation. A file
\* that is missing, unreadable or not JSON is left alone, and so is one that
\* cannot be opened for writing.
FixSiteConfigFile(site, canWrite) ==
  IF site.kind = "json" /\ NeedsRewrite(site.cfg) /\ canWrite
  THEN [kind |-> "json", cfg |-> RewriteSiteConfig(site.cfg)]
  ELSE site

\* Lines 328-348, after the loop: reconcile sites/development.localhost and
\* return True.
FixSiteConfig ==
  /\ pc = "set_config"
  /\ i > Len(config_commands(args.db_type))
  /\ \E canWrite \in BOOLEAN :
       sites' = [sites EXCEPT ![DefaultSite] = FixSiteConfigFile(@, canWrite)]
  /\ Advance("workspace_configuration", TRUE)
  \* the locals of configure_bench are gone
  /\ i' = 1
  /\ warned' = FALSE
  /\ result' = "ok"
  /\ UNCHANGED <<runVars, envVars, benchExists, apps, calls, PATH, wrapper>>

\* --------------------------------------------------------- companion install

GetApp == Call("bench", <<"get-app", "--branch", "develop-next", "erpnext">>)

\* check_apps: the subdirectories of <bench>/apps, none when it is absent.
check_apps(a) == IF a.exists THEN a.dirs ELSE {}

\* Mutant of NeedsGetApp: an absent apps directory counts as nothing to do.
NeedsGetApp_absent(a) == a.exists /\ "erpnext" \notin a.dirs

\* install_erpnext_if_missing, line 371: whether get-app is invoked.
NeedsGetApp(a) == "erpnext" \notin check_apps(a)

\* install_erpnext_if_missing: what the step reports.
install_erpnext_ok(a, out) == ~NeedsGetApp(a) \/ out = "ok"

InstallErpnext ==
  /\ pc = "install_erpnext"
  /\ \E out \in Outcomes :
       LET need == NeedsGetApp(apps)
           ok == install_erpnext_ok(apps, out)
       IN
       /\ calls' = IF need THEN Append(calls, GetApp) ELSE calls
       /\ result' = IF need THEN out ELSE result
       /\ apps' = IF need /\ out = "ok"
                  THEN [exists |-> TRUE, dirs |-> apps.dirs \cup {"erpnext"}]
                  ELSE apps
       /\ Advance("companion_install", ok)
  /\ UNCHANGED <<runVars, envVars, benchExists, sites, i, warned, PATH, wrapper>>

\* ---------------------------------------------------------- site provisioning

DropSite(site) == Call("bench", <<"drop-site", site, "--force">>)
NewSite(site, db_type) ==
  Call("bench", <<"new-site", "--db-host=127.0.0.1",
                  IF db_type = "mariadb" THEN "--db-port=3306" ELSE "--db-port=5432",
                  db_type, "--force", site>>)
InstallApp(site) == Call("bench", <<"--site", site, "install-app", "erpnext">>)

\* Line 436: os.path.exists(site_path)
SitePresent(site) == site.kind # "absent"

\* Mutant of create_site_skips: the recreate flag is read the wrong way round.
create_site_skips_inverted(site, recreate) == SitePresent(site) /\ recreate

\* Lines 436-440: the site is there and recreation was not requested.
create_site_skips(site, recreate) == SitePresent(site) /\ ~recreate

\* Mutant of create_site_drops: recreation drops without looking for the site.
create_site_drops_unchecked(site, recreate) == recreate

\* Lines 444-452: drop-site runs when the site is there (and, given the early
\* return, recreation was requested).
create_site_drops(site, recreate) == SitePresent(site) /\ ~create_site_skips(site, recreate)

\* Lines 491-499: install-app runs after a new-site that exited 0.
create_site_installs(n) == n = "ok"

\* create_site: the commands it invokes, in order; n is the outcome of
\* new-site.
create_site_calls(name, db_type, site, recreate, n) ==
  IF create_site_skips(site, recreate) THEN <<>>
  ELSE (IF create_site_drops(site, recreate) THEN <<DropSite(name)>> ELSE <<>>)
         \o <<NewSite(name, db_type)>>
         \o (IF create_site_installs(n) THEN <<InstallApp(name)>> ELSE <<>>)

\* Mutant of create_site_ok: a failed install-app fails the step.
create_site_ok_strict(site, recreate, n, a) ==
  \/ create_site_skips(site, recreate)
  \/ (n = "ok" /\ a = "ok")

\* create_site: what it returns; n and a are the outcomes of new-site and
\* install-app. An exception from either is caught at line 511.
create_site_ok(site, recreate, n, a) ==
  \/ create_site_skips(site, recreate)
  \/ (n = "ok" /\ a # "raise")

\* The site_config.json bench writes for the flags of lines 462-486.
NewSiteConfig(db_type) ==
  [db_host |-> Loopback,
   db_port |-> IF db_type = "mariadb" THEN MariadbPort ELSE PostgresPort,
   db_socket |-> NoVal,
   db_name |-> "_new"]

\* The site directory after create_site; d, n are the outcomes of drop-site
\* and new-site.
create_site_effect(db_type, site, recreate, d, n) ==
  IF create_site_skips(site, recreate) THEN site
  ELSE IF n = "ok" THEN [kind |-> "json", cfg |-> NewSiteConfig(db_type)]
  ELSE IF create_site_drops(site, recreate) /\ d = "ok" THEN NoSite
  ELSE site

CreateSite ==
  /\ pc = "create_site"
  /\ \E d \in Outcomes, n \in Outcomes, a \in Outcomes :
       LET site == sites[args.site_name]
           cs == create_site_calls(args.site_name, args.db_type, site,
                                   args.recreate_site, n)
           ok == create_site_ok(site, args.recreate_site, n, a)
       IN
       /\ calls' = calls \o cs
       /\ result' = IF cs = <<>> THEN result
                    ELSE IF create_site_installs(n) THEN a ELSE n
       /\ sites' = [sites EXCEPT ![args.site_name] =
                      create_site_effect(args.db_type, site, args.recreate_site, d, n)]
       /\ Advance("site_provisioning", ok)
  /\ UNCHANGED <<runVars, envVars, benchExists, apps, i, warned, PATH, wrapper>>

\* ---------------------------------------------------------------- the end

\* show_usage, then main returns and the interpreter exits with code 0.
ShowUsage ==
  /\ pc = "show_usage"
  /\ Advance("usage_summary", TRUE)
  /\ UNCHANGED <<runVars, envVars, fsVars, calls, result, i, warned, PATH, wrapper>>

\* The same command line is run again: a new process, which inherits the
\* original PATH and finds the files the earlier run left.
Restart ==
  /\ pc = "exit"
  /\ run < MaxRuns
  /\ run' = run + 1
  /\ pc' = "preflight"
  /\ exitCode' = Running
  /\ steps' = <<>>
  /\ calls' = <<>>
  /\ result' = "ok"
  /\ PATH' = PATH0
  /\ UNCHANGED <<args, envVars, fsVars, i, warned, wrapper>>

Next ==
  \/ Preflight
  \/ CheckMysqlClient
  \/ SetupMysqlPath
  \/ CheckDatabaseService
  \/ InitBench
  \/ ConfigureBench
  \/ SetConfig
  \/ FixSiteConfig
  \/ InstallErpnext
  \/ CreateSite
  \/ ShowUsage
  \/ Restart

Spec == Init /\ [][Next]_vars

\* ================================================================ properties

\* The commands the step being taken invokes.
NewCalls == SubSeq(calls', Len(calls) + 1, Len(calls'))
\* What the step being taken reported to main.
Reported == steps'[Len(steps')]
Invoked(c) == \E k \in 1..Len(calls) : calls[k] = c
Count(c, cs) == Cardinality({ k \in 1..Len(cs) : cs[k] = c })
StepDone(name) == \E k \in 1..Len(steps) : steps[k].step = name
StepOk(name) == \E k \in 1..Len(steps) : steps[k] = Step(name, TRUE)
SiteCommands(n) ==
  { DropSite(n), InstallApp(n) } \cup { NewSite(n, t) : t \in DbTypes }

\* C1: create_site, called when the site directory exists and recreation was
\* not requested, reports success, invokes none of drop-site, new-site and
\* install-app, and leaves every site directory and configuration as it was.
C1_ExistingSiteIsNoOp ==
  [][ (pc = "create_site" /\ SitePresent(sites[args.site_name]) /\ ~args.recreate_site)
        => /\ Reported = Step("site_provisioning", TRUE)
           /\ pc' = "show_usage"
           /\ \A k \in 1..Len(NewCalls) : NewCalls[k] \notin SiteCommands(args.site_name)
           /\ calls' = calls
           /\ sites' = sites ]_vars

\* create_site has returned success for a site that was there, without
\* recreation and without one site command.
C1_Witness ==
  /\ pc = "show_usage"
  /\ ~args.recreate_site
  /\ SitePresent(sites[args.site_name])
  /\ \A c \in SiteCommands(args.site_name) : ~Invoked(c)

\* C2: init_bench_if_not_exist, called when the workspace directory exists,
\* reports success, invokes neither git config nor bench init and leaves the
\* workspace as it is; and a workspace initialization that reported success
\* leaves the directory in place, so that the next run takes this path.
C2_InitIsIdempotent ==
  /\ [][ (pc = "init_bench" /\ benchExists)
           => /\ Reported = Step("workspace_init", TRUE)
              /\ pc' = "configure"
              /\ calls' = calls
              /\ fsVars' = fsVars ]_vars
  /\ [](StepOk("workspace_init") => benchExists)

\* The second run in a row has passed workspace initialization without
\* invoking git or bench init.
C2_Witness ==
  /\ run = 2
  /\ pc = "configure"
  /\ benchExists
  /\ ~Invoked(BenchInit)
  /\ ~Invoked(GitConfig("erpnext"))
  /\ ~Invoked(GitConfig("frappe"))

\* The steps of main in program order, and those whose failure ends the process.
StepOrder ==
  << "preflight", "client_resolution", "wrapper_generation", "database_probe",
     "workspace_init", "workspace_configuration", "companion_install",
     "site_provisioning", "usage_summary" >>
FatalSteps ==
  { "preflight", "client_resolution", "wrapper_generation", "database_probe",
    "workspace_init", "workspace_configuration", "site_provisioning" }
\* The steps main runs only for --db-type mariadb (lines 610-618).
MariadbSteps == { "client_resolution", "wrapper_generation", "database_probe" }

Applies(name, db_type) == db_type = "mariadb" \/ name \notin MariadbSteps
StepsFor(db_type) == SelectSeq(StepOrder, LAMBDA n : Applies(n, db_type))

\* A fatal step that reported failure is the last step, and the process has
\* exited with code 1.
FatalFailureEndsRun ==
  \A k \in 1..Len(steps) :
     (steps[k].step \in FatalSteps /\ ~steps[k].ok)
       => (k = Len(steps) /\ pc = "exit" /\ exitCode = ExitFatal)

\* C3 as stated: every run executes the nine steps in the fixed order, a
\* failed fatal step ends the process with code 1 before any later step, and
\* a process that exits with code 0 has seen every one of the seven fatal
\* steps report success.
C3_AsStated ==
  /\ \A k \in 1..Len(steps) : steps[k].step = StepOrder[k]
  /\ FatalFailureEndsRun
  /\ exitCode = ExitOk => \A f \in FatalSteps : StepOk(f)

\* C3, amended: the steps run in the fixed order, client resolution, wrapper
\* generation and database probe being run for --db-type mariadb only; a
\* failed fatal step ends the process with code 1 before any later step; and
\* the process exits with code 0 only after every step that applies to the
\* database type has run and every fatal one of them reported success.
C3_LinearFlow ==
  /\ Len(steps) <= Len(StepsFor(args.db_type))
  /\ \A k \in 1..Len(steps) : steps[k].step = StepsFor(args.db_type)[k]
  /\ FatalFailureEndsRun
  /\ exitCode = ExitOk =>
       /\ pc = "exit"
       /\ Len(steps) = Len(StepsFor(args.db_type))
       /\ \A f \in FatalSteps : Applies(f, args.db_type) => StepOk(f)

\* A postgres run has exited with code 0 without the three mariadb steps.
C3_Witness ==
  /\ exitCode = ExitOk
  /\ args.db_type = "postgres"
  /\ Len(steps) = 6
  /\ ~StepDone("database_probe")

\* The set-config invocations of this run, in order.
SetConfigCalls ==
  SelectSeq(calls, LAMBDA c : c.cmd = "bench" /\ c.args[1] = "set-config")
ConfigList == config_commands(args.db_type)

\* C4: in configure_bench with an existing workspace, whatever the outcome of
\* an invocation (exit code 0, nonzero exit code, exception) the next entry of
\* the list is attempted next, every entry is attempted exactly once in list
\* order, and configure_bench reports success.
C4_ConfigIsBestEffort ==
  /\ [](pc = "set_config" =>
          /\ benchExists
          /\ i \in 1..(Len(ConfigList) + 1)
          /\ SetConfigCalls = [k \in 1..(i - 1) |-> SetConfigCall(ConfigList[k])])
  /\ [](StepDone("workspace_configuration") /\ benchExists =>
          /\ StepOk("workspace_configuration")
          /\ SetConfigCalls = [k \in 1..Len(ConfigList) |-> SetConfigCall(ConfigList[k])])
  /\ [][ pc = "set_config" =>
           IF i <= Len(ConfigList)
           THEN /\ pc' = "set_config"
                /\ i' = i + 1
                /\ calls' = Append(calls, SetConfigCall(ConfigList[i]))
           ELSE /\ Reported = Step("workspace_configuration", TRUE)
                /\ pc' = "install_erpnext" ]_vars

\* The loop has attempted every entry although an earlier one failed.
C4_Witness ==
  /\ pc = "set_config"
  /\ i = Len(ConfigList) + 1
  /\ warned
  /\ result = "ok"
  /\ Len(SetConfigCalls) = Len(ConfigList)

\* What reconciliation did to the site configuration files, as a relation
\* between the documents before and after the step.
Reconciling == pc = "set_config" /\ i > Len(ConfigList)
Rewritten(n) == sites'[n] # sites[n]

\* C5 as stated (mariadb path): a rewritten file had a placeholder host, has
\* host 127.0.0.1 and port 3306, and every other field is as before; a file
\* whose host is no placeholder is not rewritten.
C5_AsStated ==
  [][ (Reconciling /\ args.db_type = "mariadb") =>
        \A n \in SiteNames :
           /\ Rewritten(n) =>
                /\ sites[n].kind = "json" /\ sites'[n].kind = "json"
                /\ sites[n].cfg.db_host \in Placeholders
                /\ sites'[n].cfg.db_host = Loopback
                /\ sites'[n].cfg.db_port = MariadbPort
                /\ sites'[n].cfg.db_socket = sites[n].cfg.db_socket
                /\ sites'[n].cfg.db_name = sites[n].cfg.db_name
           /\ (sites[n].kind = "json" /\ sites[n].cfg.db_host \notin Placeholders)
                => ~Rewritten(n) ]_vars

\* C5, amended (mariadb path): a rewritten file had a placeholder host, has
\* host 127.0.0.1, port 3306 and an empty socket path, and every field other
\* than host, port and socket path is as before; a file whose host is no
\* placeholder is not rewritten; only the default site's file is rewritten.
C5_Reconciliation ==
  [][ (Reconciling /\ args.db_type = "mariadb") =>
        \A n \in SiteNames :
           /\ Rewritten(n) =>
                /\ n = DefaultSite
                /\ sites[n].kind = "json" /\ sites'[n].kind = "json"
                /\ sites[n].cfg.db_host \in Placeholders
                /\ sites'[n].cfg.db_host = Loopback
                /\ sites'[n].cfg.db_port = MariadbPort
                /\ sites'[n].cfg.db_socket = ""
                /\ sites'[n].cfg.db_name = sites[n].cfg.db_name
           /\ (sites[n].kind = "json" /\ sites[n].cfg.db_host \notin Placeholders)
                => ~Rewritten(n) ]_vars

\* configure_bench has rewritten the default site's file on the mariadb path:
\* an empty socket path is only ever written by reconciliation.
C5_Witness ==
  /\ pc = "install_erpnext"
  /\ args.db_type = "mariadb"
  /\ run = 1
  /\ sites[DefaultSite].kind = "json"
  /\ sites[DefaultSite].cfg =
       [db_host |-> Loopback, db_port |-> MariadbPort, db_socket |-> "", db_name |-> "_site"]

CanonicalPort(db_type) == IF db_type = "mariadb" THEN MariadbPort ELSE PostgresPort

\* C6: when a run exits with code 0, the configuration of the site named by
\* --site-name names a network address of the selected database service: the
\* host is no placeholder, the socket path is empty or absent, and the port is
\* the canonical port of the database kind (stated for a site whose
\* configuration file holds a JSON document).
C6_AsStated ==
  LET s == sites[args.site_name] IN
  (exitCode = ExitOk /\ s.kind = "json") =>
    /\ s.cfg.db_host \notin Placeholders
    /\ s.cfg.db_socket \in {"", NoVal}
    /\ s.cfg.db_port = CanonicalPort(args.db_type)

\* The wrapper as line 214-222 write it for a binary.
GoodWrapper(bin) ==
  [exists |-> TRUE, binary |-> bin, tcp |-> TRUE, mode |-> WrapperMode]

\* C7 as stated: once setup_mysql_path has reported success, ~/bin/mariadb
\* exists, is executable and execs a mysql binary of this machine with
\* --protocol=TCP; and where the wrapper cannot be written, the step ends the
\* process with code 1.
C7_AsStated ==
  /\ StepOk("wrapper_generation") =>
       /\ wrapper.exists
       /\ wrapper.mode = WrapperMode
       /\ wrapper.tcp
       /\ Dirname(wrapper.binary) \in machine.mysqlDirs
  /\ (StepDone("wrapper_generation") /\ machine.homeBin # "writable")
       => exitCode = ExitFatal

\* C7, amended: setup_mysql_path reports failure only when no mysql binary is
\* located. When it reports success and the file could be written and made
\* executable, ~/bin/mariadb has mode 0755 and execs the located binary with
\* --protocol=TCP; when the file cannot be opened for writing it is left as it
\* was, when only chmod fails it has the new content; in both cases the step
\* still reports success and the database probe runs next. The process exits
\* with code 1 in this step only when no binary is located or ~/bin cannot be
\* created.
C7_WrapperGeneration ==
  [][ pc = "setup_mysql" =>
        LET bin == LocateMysql(result' = "raise", PATH, machine) IN
        IF bin = <<>>
        THEN /\ Reported = Step("wrapper_generation", FALSE)
             /\ pc' = "exit" /\ exitCode' = ExitFatal
             /\ wrapper' = wrapper
        ELSE CASE machine.homeBin = "blocked" ->
                    /\ pc' = "exit" /\ exitCode' = ExitFatal
                    /\ wrapper' = wrapper
               [] machine.homeBin = "writable" ->
                    /\ Reported = Step("wrapper_generation", TRUE)
                    /\ pc' = "check_db"
                    /\ wrapper' = GoodWrapper(bin)
               [] machine.homeBin = "nochmod" ->
                    /\ Reported = Step("wrapper_generation", TRUE)
                    /\ pc' = "check_db"
                    /\ wrapper'.exists /\ wrapper'.binary = bin /\ wrapper'.tcp
               [] OTHER ->
                    /\ Reported = Step("wrapper_generation", TRUE)
                    /\ pc' = "check_db"
                    /\ wrapper' = wrapper ]_vars

\* setup_mysql_path has reported success and the database probe is next,
\* although there is no wrapper file.
C7_Witness ==
  /\ pc = "check_db"
  /\ StepOk("wrapper_generation")
  /\ machine.homeBin = "readonly"
  /\ ~wrapper.exists

\* No mysql binary on the inherited search path and none at a fallback location.
NoMysqlClient ==
  /\ WhichMysql(PATH0, machine) = <<>>
  /\ FirstExisting(homebrew_paths, machine) = <<>>

\* C8: on the mariadb path, with no mysql on the search path and no fallback
\* location, client resolution reports failure and the process exits with
\* code 1; wrapper generation never runs, ~/bin/mariadb is not written and
\* PATH is not changed.
C8_NoClientNoWrapper ==
  /\ [][ (pc = "check_mysql" /\ NoMysqlClient) =>
           /\ Reported = Step("client_resolution", FALSE)
           /\ pc' = "exit" /\ exitCode' = ExitFatal
           /\ wrapper' = wrapper
           /\ PATH' = PATH ]_vars
  /\ []((args.db_type = "mariadb" /\ NoMysqlClient) =>
          /\ ~StepDone("wrapper_generation")
          /\ PATH = PATH0
          /\ wrapper \in {NoWrapper, StaleWrapper})

\* Client resolution has failed on a machine without a mysql client, and the
\* process has exited with code 1.
C8_Witness ==
  /\ pc = "exit"
  /\ exitCode = ExitFatal
  /\ NoMysqlClient
  /\ steps[Len(steps)] = Step("client_resolution", FALSE)

C10_CompanionInstall ==
  /\ [][ pc = "install_erpnext" =>
           /\ IF apps.exists /\ "erpnext" \in apps.dirs
              THEN calls' = calls
              ELSE calls' = Append(calls, GetApp)
           /\ pc' = "create_site"
           /\ exitCode' = Running ]_vars
  /\ [](Count(GetApp, calls) <= 1)

\* get-app raised, and site provisioning is the next step.
C10_Witness ==
  /\ pc = "create_site"
  /\ calls[Len(calls)] = GetApp
  /\ result = "raise"
  /\ steps[Len(steps)] = Step("companion_install", FALSE)

\* C11: in create_site with recreation requested, drop-site is invoked only
\* when the site directory exists, then as the first command, and new-site is
\* the command after it whatever drop-site did (exit code 0, nonzero exit
\* code, exception); when the site directory does not exist, drop-site is not
\* invoked and new-site is the first command.
C11_RecreateDropsFirst ==
  [][ (pc = "create_site" /\ args.recreate_site) =>
        LET drop == DropSite(args.site_name)
            new == NewSite(args.site_name, args.db_type)
        IN
        /\ Count(new, NewCalls) = 1
        /\ IF SitePresent(sites[args.site_name])
           THEN /\ Count(drop, NewCalls) = 1
                /\ NewCalls[1] = drop
                /\ NewCalls[2] = new
           ELSE /\ Count(drop, NewCalls) = 0
                /\ NewCalls[1] = new ]_vars

\* Recreation was requested, drop-site and then new-site were invoked, and
\* the site directory is still there after a new-site that did not succeed:
\* drop-site had failed or raised.
C11_Witness ==
  /\ pc = "exit"
  /\ exitCode = ExitFatal
  /\ args.recreate_site
  /\ Len(calls) >= 2
  /\ calls[Len(calls) - 1] = DropSite(args.site_name)
  /\ calls[Len(calls)] = NewSite(args.site_name, args.db_type)
  /\ SitePresent(sites[args.site_name])

\* C12 as stated: once setup_mysql_path has reported success, ~/bin is an
\* entry of PATH that comes before every entry holding a mysql client (the
\* discovered mysql directory among them), and the entries of the initial
\* PATH are the tail of PATH, in their original order.
C12_AsStated ==
  StepOk("wrapper_generation") =>
    LET es == Entries(PATH)
        es0 == Entries(PATH0)
    IN
    /\ \E k \in 1..Len(es) :
         /\ es[k] = LocalBin
         /\ \A j \in 1..Len(es) : es[j] \in machine.mysqlDirs => k < j
    /\ Len(es0) <= Len(es)
    /\ SubSeq(es, Len(es) - Len(es0) + 1, Len(es)) = es0

\* C13: when configure_bench reaches the site configuration file and the file
\* is missing (no site directory, or a site directory without the file),
\* unreadable or not valid JSON, configure_bench reports success, the
\* workflow goes on to the companion installation, no command is run, and
\* every site is left as it was.
C13_BadSiteConfigTolerated ==
  [][ (Reconciling
         /\ sites[DefaultSite].kind \in {"absent", "nofile", "unreadable", "invalid"})
        => /\ Reported = Step("workspace_configuration", TRUE)
           /\ pc' = "install_erpnext"
           /\ exitCode' = exitCode
           /\ NewCalls = <<>>
           /\ sites' = sites ]_vars

\* configure_bench has reported success and the companion installation is
\* next, with a site configuration file that is not valid JSON on disk.
C13_Witness ==
  /\ pc = "install_erpnext"
  /\ steps[Len(steps)] = Step("workspace_configuration", TRUE)
  /\ sites[DefaultSite].kind = "invalid"

====
